---- MODULE Spec2Model ----
(***************************************************************************)
(* Model of src/src/main.py, the "Dollar Debasement Dashboard" script.     *)
(*                                                                         *)
(* The script is one straight-line run: it loads four series from CSV      *)
(* files (CPI, median sales price, gasoline, and the Big Mac series from   *)
(* two segment files), adds a purchasing-power column to each, and then    *)
(* filters at 1995-01-01, resamples by calendar year and rebases to a      *)
(* percentage of the first row, once per chart and once more for the       *)
(* combined chart.  An uncaught Python exception ends the run.             *)
(*                                                                         *)
(* Floats are modelled as exact non-negative rationals <<n, d>> in lowest  *)
(* terms, extended with the two IEEE values the script can produce from    *)
(* non-negative prices: NaN (a missing cell) and +inf (division by 0.0).   *)
(* Dates are integers yyyymmdd.  A DataFrame is a sequence of rows, a row  *)
(* a function from column names to cells.                                  *)
(***************************************************************************)
EXTENDS Integers, Sequences, FiniteSets, TLC

VARIABLES files, pc, err, loadOrder, cpi, msp, gasoline, bigmac, summary,
          plots, combined_data, legend

vars == <<files, pc, err, loadOrder, cpi, msp, gasoline, bigmac, summary,
          plots, combined_data, legend>>

(***************************************************************************)
(* Float cells.                                                            *)
(***************************************************************************)
NaN == <<0, 0>>
Inf == <<1, 0>>

RECURSIVE GCD(_, _)
GCD(a, b) == IF b = 0 THEN a ELSE GCD(b, a % b)

\* The cell n/d in lowest terms; x/0.0 is inf for x > 0 and NaN for x = 0.
Norm(n, d) ==
    IF d = 0 THEN (IF n = 0 THEN NaN ELSE Inf)
    ELSE LET g == GCD(n, d) IN <<n \div g, d \div g>>

Num(k) == <<k, 1>>

IsNaN(a) == a = NaN

\* a / b on float64 cells (numpy semantics: no exception, inf and NaN).
FDiv(a, b) == Norm(a[1] * b[2], a[2] * b[1])

\* a * k for a positive integer constant k.
FScale(a, k) == Norm(a[1] * k, a[2])

\* a + b on float64 cells.
FAdd(a, b) ==
    IF IsNaN(a) \/ IsNaN(b) THEN NaN
    ELSE IF a = Inf \/ b = Inf THEN Inf
    ELSE Norm(a[1] * b[2] + b[1] * a[2], a[2] * b[2])

RECURSIVE FSum(_)
FSum(s) == IF s = <<>> THEN Num(0) ELSE FAdd(s[1], FSum(Tail(s)))

NotNaN(v) == ~IsNaN(v)

\* Series.mean() of a group: NaN cells are skipped, an all-NaN or empty
\* group gives NaN.
Mean(s) ==
    LET t == SelectSeq(s, NotNaN)
    IN  IF t = <<>> THEN NaN ELSE FDiv(FSum(t), Num(Len(t)))

\* GroupBy.last() of a group: the last non-NaN cell, NaN if there is none.
Last(s) ==
    LET t == SelectSeq(s, NotNaN)
    IN  IF t = <<>> THEN NaN ELSE t[Len(t)]

(***************************************************************************)
(* Dates.                                                                  *)
(***************************************************************************)
\* pd.to_datetime('1995-01-01')
Cutoff == 19950101

Year(d) == d \div 10000

\* The label of a 'YE' bin: 31 December of the year.
YearEnd(y) == y * 10000 + 1231

(***************************************************************************)
(* DataFrames.                                                             *)
(***************************************************************************)
\* None, pd.DataFrame() (no columns, no rows), or a frame with columns.
NoneFrame == [kind |-> "None", rows |-> <<>>]
EmptyFrame == [kind |-> "NoCols", rows |-> <<>>]
Frame(rows) == [kind |-> "Frame", rows |-> rows]

Col(rows, c) == [i \in DOMAIN rows |-> rows[i][c]]

\* df[c] = cells: the column c of every row set to its cell.
WithCol(rows, c, cells) ==
    [i \in DOMAIN rows |->
        [k \in DOMAIN rows[i] \cup {c} |-> IF k = c THEN cells[i] ELSE rows[i][k]]]

\* df[df['date'] >= pd.to_datetime('1995-01-01')]
OnOrAfterCutoff(r) == r["date"] >= Cutoff
FilterCutoff(rows) == SelectSeq(rows, OnOrAfterCutoff)

\* DataFrame.dropna(): a row with a NaN in any column is dropped.
HasNoNaN(r) == \A k \in DOMAIN r \ {"date"} : ~IsNaN(r[k])
DropNa(rows) == SelectSeq(rows, HasNoNaN)

\* drop_duplicates(subset=['date'], keep='last'): what the merge would need
\* for the later-listed segment to win.
DropDuplicatesKeepLast(rows) ==
    LET last(i) == \A j \in (i + 1)..Len(rows) : rows[j]["date"] # rows[i]["date"]
        RECURSIVE pick(_)
        pick(i) == IF i > Len(rows) THEN <<>>
                   ELSE IF last(i) THEN <<rows[i]>> \o pick(i + 1)
                   ELSE pick(i + 1)
    IN  pick(1)

\* drop_duplicates(subset=['date']) with the default keep='first'.
DropDuplicates(rows) ==
    LET first(i) == \A j \in 1..(i - 1) : rows[j]["date"] # rows[i]["date"]
        idx == {i \in DOMAIN rows : first(i)}
        RECURSIVE pick(_)
        pick(i) == IF i > Len(rows) THEN <<>>
                   ELSE IF i \in idx THEN <<rows[i]>> \o pick(i + 1)
                   ELSE pick(i + 1)
    IN  pick(1)

\* sort_values('date') of rows whose dates are distinct.
SortValues(rows) ==
    LET rank(i) == Cardinality({j \in DOMAIN rows : rows[j]["date"] < rows[i]["date"]}) + 1
    IN  [k \in DOMAIN rows |-> rows[CHOOSE i \in DOMAIN rows : rank(i) = k]]

\* set_index('date').resample('YE').<agg>().reset_index(): one row per
\* calendar year from the year of the earliest row to the year of the
\* latest, labelled with the year end; an empty frame gives an empty frame.
Aggregate(how, s) == IF how = "mean" THEN Mean(s) ELSE Last(s)

ResampleYE(rows, how) ==
    IF rows = <<>> THEN <<>>
    ELSE LET years == {Year(rows[i]["date"]) : i \in DOMAIN rows}
             y0 == CHOOSE y \in years : \A z \in years : y <= z
             y1 == CHOOSE y \in years : \A z \in years : z <= y
             grp(y) == SelectSeq(rows, LAMBDA r : Year(r["date"]) = y)
         IN  [i \in 1..(y1 - y0 + 1) |->
                [k \in DOMAIN rows[1] |->
                    IF k = "date" THEN YearEnd(y0 + i - 1)
                    ELSE Aggregate(how, Col(grp(y0 + i - 1), k))]]

\* A resampling that emits a row only for the years that have rows.
ResampleMeanSparse(rows) ==
    SelectSeq(ResampleYE(rows, "mean"),
              LAMBDA a : \E i \in DOMAIN rows : Year(rows[i]["date"]) = Year(a["date"]))

ResampleMean(rows) == ResampleYE(rows, "mean")
ResampleLast(rows) == ResampleYE(rows, "last")

\* A rebasing on the last row instead of the first.
RebaseOnLast(rows, c, out) ==
    LET initial == rows[Len(rows)][c]
    IN  WithCol(rows, out, [i \in DOMAIN rows |-> FScale(FDiv(rows[i][c], initial), 100)])

\* initial = df[c].iloc[0]; df[out] = (df[c] / initial) * 100
\* (on an empty frame iloc[0] raises IndexError: see Plot and Combine).
Rebase(rows, c, out) ==
    LET initial == rows[1][c]
    IN  WithCol(rows, out, [i \in DOMAIN rows |-> FScale(FDiv(rows[i][c], initial), 100)])

(***************************************************************************)
(* The input files.  A file is absent or holds rows sorted by date with    *)
(* distinct dates; a price cell is a number, 0, or empty (NaN).            *)
(***************************************************************************)
Absent == [kind |-> "absent", rows |-> <<>>]
File(rows) == [kind |-> "file", rows |-> rows]

\* The rows of the dates S with the cells f, in date order, the price in
\* column c.
RowsOf(S, f, c) ==
    LET rank(d) == Cardinality({e \in S : e < d}) + 1
    IN  [k \in 1..Cardinality(S) |->
            LET d == CHOOSE e \in S : rank(e) = k
            IN  [x \in {"date", c} |-> IF x = "date" THEN d ELSE f[d]]]

\* No file, or a file with rows for some of the dates D and cells from P.
FilesOver(D, P, c) ==
    {Absent} \cup {File(RowsOf(S, f, c)) : S \in SUBSET D, f \in [D -> P]}

\* The last year the gasoline file may have a row for; with a row in 1995
\* the years in between have none.
LastYear == 1997

\* data/CPIAUCSL.csv: monthly index values; any selection of these rows.
CpiExample == (20200101 :> Num(260)) @@ (20200601 :> Num(262)) @@ (20210101 :> Num(270))
CpiFiles ==
    {Absent} \cup {File(RowsOf(S, CpiExample, "value")) : S \in SUBSET DOMAIN CpiExample}
\* data/MSPUS.csv: quarterly prices; any selection of these rows.
MspExample == (19950101 :> Num(1)) @@ (19951001 :> Num(2))
MspFiles ==
    {Absent} \cup {File(RowsOf(S, MspExample, "value")) : S \in SUBSET DOMAIN MspExample}
\* data/Gas-Prices-Per-Gallon-All-Grades.csv: monthly prices with empty
\* cells and years without rows.
GasolineFiles == FilesOver({19950101, LastYear * 10000 + 101}, {NaN, Num(2)}, "price")
\* data/big-mac-historical-source-data.csv, USA rows: a row before the
\* cutoff and a price of 0.
HistoricalFiles == FilesOver({19940701, 19950101}, {Num(0), Num(2)}, "price")
\* data/big-mac-source-data-v2.csv, USA rows: a date the historical file
\* has too, and an empty cell.
CurrentFiles == FilesOver({19950101, 19950701}, {NaN, Num(4)}, "price")

Init ==
    /\ files \in [cpi : CpiFiles, msp : MspFiles, gasoline : GasolineFiles,
                  historical : HistoricalFiles, current : CurrentFiles]
    /\ pc = "load_cpi"
    /\ err = "none"
    /\ loadOrder = <<>>
    /\ cpi = NoneFrame
    /\ msp = NoneFrame
    /\ gasoline = NoneFrame
    /\ bigmac = NoneFrame
    /\ summary = <<>>
    /\ plots = <<>>
    /\ combined_data = <<>>
    /\ legend = <<>>

(***************************************************************************)
(* Loading.                                                                *)
(***************************************************************************)
\* try: pd.read_csv(path) ... except Exception: name = None
ReadCsv(f) == IF f.kind = "absent" THEN NoneFrame ELSE Frame(f.rows)

Loaded(f, name) == IF f.kind = "absent" THEN loadOrder ELSE Append(loadOrder, name)

LoadCpi ==
    /\ pc = "load_cpi"
    /\ cpi' = ReadCsv(files.cpi)
    /\ loadOrder' = Loaded(files.cpi, "cpi")
    /\ pc' = "load_msp"
    /\ UNCHANGED <<files, err, msp, gasoline, bigmac, summary, plots, combined_data, legend>>

LoadMsp ==
    /\ pc = "load_msp"
    /\ msp' = ReadCsv(files.msp)
    /\ loadOrder' = Loaded(files.msp, "median_home")
    /\ pc' = "load_gasoline"
    /\ UNCHANGED <<files, err, cpi, gasoline, bigmac, summary, plots, combined_data, legend>>

LoadGasoline ==
    /\ pc = "load_gasoline"
    /\ gasoline' = ReadCsv(files.gasoline)
    /\ loadOrder' = Loaded(files.gasoline, "gasoline")
    /\ pc' = "load_bigmac"
    /\ UNCHANGED <<files, err, cpi, msp, bigmac, summary, plots, combined_data, legend>>

\* if os.path.exists(path): pd.read_csv(path)[USA rows] else: pd.DataFrame()
ReadSegment(f) == IF f.kind = "absent" THEN EmptyFrame ELSE Frame(f.rows)

\* pd.concat([historical, current]): the rows of the first, then of the
\* second; the result has the columns of the frames that have any.
Concat(a, b) ==
    [kind |-> IF a.kind = "Frame" \/ b.kind = "Frame" THEN "Frame" ELSE "NoCols",
     rows |-> a.rows \o b.rows]

\* .drop_duplicates(subset=['date']).sort_values('date') of the frame.
MergeSegments(historical, current) ==
    SortValues(DropDuplicates(Concat(historical, current).rows))

LoadBigMac ==
    /\ pc = "load_bigmac"
    /\ LET historical == ReadSegment(files.historical)
           current == ReadSegment(files.current)
       IN  IF Concat(historical, current).kind = "NoCols"
           THEN \* sort_values('date') on a frame without columns
                /\ pc' = "crashed"
                /\ err' = "KeyError"
                /\ UNCHANGED <<bigmac, loadOrder>>
           ELSE /\ bigmac' = Frame(MergeSegments(historical, current))
                /\ loadOrder' = Append(loadOrder, "bigmac")
                /\ pc' = "summary"
                /\ UNCHANGED err
    /\ UNCHANGED <<files, cpi, msp, gasoline, summary, plots, combined_data, legend>>

(***************************************************************************)
(* The summary: one purchasing-power column per series.                    *)
(***************************************************************************)
\* 10000.0 / df['price'] and 1 / cpi['value']
PerTenK(price) == FDiv(Num(10000), price)
\* The CPI value itself, not its reciprocal.
NotInverted(value) == value
Inverse(value) == FDiv(Num(1), value)

BigMacPer10k(rows) == WithCol(rows, "bigmac_per_10k", [i \in DOMAIN rows |-> PerTenK(rows[i]["price"])])
GallonPer10k(rows) == WithCol(rows, "gallon_per_10k", [i \in DOMAIN rows |-> PerTenK(rows[i]["price"])])
HomesPer10k(rows) == WithCol(rows, "homes_per_10k", [i \in DOMAIN rows |-> PerTenK(rows[i]["value"])])
InvertedPct(rows) == WithCol(rows, "inverted_pct", [i \in DOMAIN rows |-> Inverse(rows[i]["value"])])

\* The Big Mac summary without its .dropna().
SummaryBigMacKeepNa(rows) == BigMacPer10k(rows)

\* summary['bigmac'] = bigmac[['date','price','bigmac_per_10k']].dropna()
SummaryBigMac(rows) == DropNa(BigMacPer10k(rows))
\* summary['gasoline'] = gasoline[['date','price','gallon_per_10k']]
SummaryGasoline(rows) == GallonPer10k(rows)
\* summary['median_home'] = msp[['date','value','homes_per_10k']]
SummaryMedianHome(rows) == HomesPer10k(rows)
\* summary['cpi'] = cpi[['date','value','inverted_pct']]
SummaryCpi(rows) == InvertedPct(rows)

\* The dict d with d[k] = v added (a dict keeps insertion order, which the
\* script reads only of combined_data).
Put(d, k, v) == [x \in DOMAIN d \cup {k} |-> IF x = k THEN v ELSE d[x]]

BuildSummary ==
    /\ pc = "summary"
    /\ bigmac' = Frame(BigMacPer10k(bigmac.rows))
    /\ gasoline' = IF gasoline.kind = "None" THEN gasoline
                   ELSE Frame(GallonPer10k(gasoline.rows))
    /\ msp' = IF msp.kind = "None" THEN msp ELSE Frame(HomesPer10k(msp.rows))
    /\ cpi' = IF cpi.kind = "None" THEN cpi ELSE Frame(InvertedPct(cpi.rows))
    /\ LET s1 == IF bigmac.kind # "None"
                 THEN Put(<<>>, "bigmac", SummaryBigMac(bigmac.rows)) ELSE <<>>
           s2 == IF gasoline.kind # "None"
                 THEN Put(s1, "gasoline", SummaryGasoline(gasoline.rows)) ELSE s1
           s3 == IF msp.kind # "None"
                 THEN Put(s2, "median_home", SummaryMedianHome(msp.rows)) ELSE s2
           s4 == IF cpi.kind # "None"
                 THEN Put(s3, "cpi", SummaryCpi(cpi.rows)) ELSE s3
       IN  summary' = s4
    /\ pc' = "plot_bigmac"
    /\ UNCHANGED <<files, err, loadOrder, plots, combined_data, legend>>

(***************************************************************************)
(* The four charts.                                                        *)
(***************************************************************************)
\* .iloc[0] of an empty column raises IndexError, which nothing catches.
Crash(e) ==
    /\ pc' = "crashed"
    /\ err' = e

\* lines 150-154: no resampling, every Big Mac row is a point of the chart.
BigMacChart(rows) == FilterCutoff(rows)
\* lines 165-171
GasolineChart(rows) == ResampleMean(FilterCutoff(rows))
\* The median home chart with the annual mean instead of the last value.
HomeChartMean(rows) == ResampleMean(FilterCutoff(rows))
\* lines 182-188
HomeChart(rows) == ResampleLast(FilterCutoff(rows))
\* lines 199-204: the cpi frame itself is filtered, then inverted again.
Inverted(rows) == WithCol(rows, "inverted", [i \in DOMAIN rows |-> Inverse(rows[i]["value"])])
\* The CPI chart with the last value of the year instead of the mean.
CpiChartLast(rows) == ResampleLast(Inverted(FilterCutoff(rows)))
CpiChart(rows) == ResampleMean(Inverted(FilterCutoff(rows)))

\* One chart: skipped when the series is not in summary, a crash when no
\* row is left to take the baseline from.
Plot(key, next, ann, c, out) ==
    /\ IF key \notin DOMAIN summary
       THEN /\ pc' = next
            /\ UNCHANGED <<err, plots>>
       ELSE IF ann = <<>>
       THEN /\ Crash("IndexError")
            /\ UNCHANGED plots
       ELSE /\ plots' = Put(plots, out, Rebase(ann, c, out))
            /\ pc' = next
            /\ UNCHANGED err
    /\ UNCHANGED <<files, loadOrder, cpi, msp, gasoline, bigmac, summary, combined_data, legend>>

PlotBigMac ==
    /\ pc = "plot_bigmac"
    /\ Plot("bigmac", "plot_gasoline",
            IF "bigmac" \in DOMAIN summary THEN BigMacChart(summary["bigmac"]) ELSE <<>>,
            "bigmac_per_10k", "bigmac_pct")

PlotGasoline ==
    /\ pc = "plot_gasoline"
    /\ Plot("gasoline", "plot_home",
            IF "gasoline" \in DOMAIN summary THEN GasolineChart(summary["gasoline"]) ELSE <<>>,
            "gallon_per_10k", "gallon_pct")

PlotHome ==
    /\ pc = "plot_home"
    /\ Plot("median_home", "plot_cpi",
            IF "median_home" \in DOMAIN summary THEN HomeChart(summary["median_home"]) ELSE <<>>,
            "homes_per_10k", "homes_pct")

PlotCpi ==
    /\ pc = "plot_cpi"
    /\ Plot("cpi", "comb_bigmac",
            IF "cpi" \in DOMAIN summary THEN CpiChart(cpi.rows) ELSE <<>>,
            "inverted", "inverted_pct")

(***************************************************************************)
(* The combined chart.                                                     *)
(***************************************************************************)
\* lines 218-221
BigMacAnnual(rows) == ResampleMean(FilterCutoff(rows))
\* lines 226-229
GasolineAnnual(rows) == ResampleMean(FilterCutoff(rows))
\* lines 234-237
HomeAnnual(rows) == ResampleLast(FilterCutoff(rows))
\* lines 242-245
CpiAnnual(rows) == ResampleMean(FilterCutoff(rows))

\* An insertion in front of the entries already there.
InsertFirst(d, label, df) == <<[label |-> label, df |-> df]>> \o d

\* combined_data[label] = df: a dict keeps its keys in insertion order.
Insert(d, label, df) == Append(d, [label |-> label, df |-> df])

Combine(key, next, label, ann, c) ==
    /\ IF key \notin DOMAIN summary
       THEN /\ pc' = next
            /\ UNCHANGED <<err, combined_data>>
       ELSE IF ann = <<>>
       THEN /\ Crash("IndexError")
            /\ UNCHANGED combined_data
       ELSE /\ combined_data' = Insert(combined_data, label, Rebase(ann, c, "pct"))
            /\ pc' = next
            /\ UNCHANGED err
    /\ UNCHANGED <<files, loadOrder, cpi, msp, gasoline, bigmac, summary, plots, legend>>

CombineBigMac ==
    /\ pc = "comb_bigmac"
    /\ Combine("bigmac", "comb_gasoline", "Big Mac",
               IF "bigmac" \in DOMAIN summary THEN BigMacAnnual(summary["bigmac"]) ELSE <<>>,
               "bigmac_per_10k")

CombineGasoline ==
    /\ pc = "comb_gasoline"
    /\ Combine("gasoline", "comb_home", "Gasoline",
               IF "gasoline" \in DOMAIN summary THEN GasolineAnnual(summary["gasoline"]) ELSE <<>>,
               "gallon_per_10k")

CombineHome ==
    /\ pc = "comb_home"
    /\ Combine("median_home", "comb_cpi", "Median Home",
               IF "median_home" \in DOMAIN summary THEN HomeAnnual(summary["median_home"]) ELSE <<>>,
               "homes_per_10k")

CombineCpi ==
    /\ pc = "comb_cpi"
    /\ Combine("cpi", "plot_combined", "Inverted CPI",
               IF "cpi" \in DOMAIN summary THEN CpiAnnual(summary["cpi"]) ELSE <<>>,
               "inverted_pct")

\* lines 250-264: one line per entry of combined_data, in dict order.
Labels(d) == [i \in DOMAIN d |-> d[i].label]

PlotCombined ==
    /\ pc = "plot_combined"
    /\ legend' = Labels(combined_data)
    /\ pc' = "done"
    /\ UNCHANGED <<files, err, loadOrder, cpi, msp, gasoline, bigmac, summary, plots, combined_data>>

Next ==
    \/ LoadCpi
    \/ LoadMsp
    \/ LoadGasoline
    \/ LoadBigMac
    \/ BuildSummary
    \/ PlotBigMac
    \/ PlotGasoline
    \/ PlotHome
    \/ PlotCpi
    \/ CombineBigMac
    \/ CombineGasoline
    \/ CombineHome
    \/ CombineCpi
    \/ PlotCombined

Spec == Init /\ [][Next]_vars

(***************************************************************************)
(* Properties.                                                             *)
(***************************************************************************)
Dates(rows) == {rows[i]["date"] : i \in DOMAIN rows}
RowsAt(rows, d) == {i \in DOMAIN rows : rows[i]["date"] = d}
PriceAt(rows, d) == rows[CHOOSE i \in DOMAIN rows : rows[i]["date"] = d]["price"]

\* The dates both Big Mac segment files hold, with different prices.
Conflicts ==
    {d \in Dates(files.historical.rows) \cap Dates(files.current.rows) :
        PriceAt(files.historical.rows, d) # PriceAt(files.current.rows, d)}

Merged == bigmac.kind = "Frame"

\* C1, as claimed: where the historical and the current segment hold the
\* same date with different prices, the merged Big Mac series holds one row
\* for the date, with the price of the later-listed segment (current).
C1_LaterSegmentWins ==
    Merged => \A d \in Conflicts :
        /\ Cardinality(RowsAt(bigmac.rows, d)) = 1
        /\ PriceAt(bigmac.rows, d) = PriceAt(files.current.rows, d)

\* C1, amended: the merged series holds one row for such a date, with the
\* price of the earlier-listed segment (historical): drop_duplicates keeps
\* the first occurrence.
C1_EarlierSegmentWins ==
    Merged => \A d \in Conflicts :
        /\ Cardinality(RowsAt(bigmac.rows, d)) = 1
        /\ PriceAt(bigmac.rows, d) = PriceAt(files.historical.rows, d)

C1_Witness == Merged /\ Conflicts # {}

\* The series of summary: the frame it is made from, its price column, its
\* purchasing-power column and the amount divided by the price.
Raw(k) ==
    CASE k = "bigmac" -> bigmac.rows
      [] k = "gasoline" -> gasoline.rows
      [] k = "median_home" -> msp.rows
      [] k = "cpi" -> cpi.rows
PriceCol(k) == IF k \in {"bigmac", "gasoline"} THEN "price" ELSE "value"
PowerCol(k) ==
    CASE k = "bigmac" -> "bigmac_per_10k"
      [] k = "gasoline" -> "gallon_per_10k"
      [] k = "median_home" -> "homes_per_10k"
      [] k = "cpi" -> "inverted_pct"
UnitAmount(k) == IF k = "cpi" THEN 1 ELSE 10000

IsZero(v) == v = Num(0)
\* The number of rows whose column c holds the cell v.
Count(rows, c, v) == Cardinality({i \in DOMAIN rows : rows[i][c] = v})

\* value = unit_amount / price, for a price that is a non-zero number.
IsQuotient(v, u, price) == v[2] # 0 /\ v[1] * price[1] = u * price[2] * v[2]

\* C2, as claimed: every series of summary has as many rows as its raw
\* series less the rows whose price is zero or missing, and in every row
\* value = unit_amount / price.
C2_ZeroAndMissingDropped ==
    \A k \in DOMAIN summary :
        /\ Len(summary[k]) = Len(Raw(k)) - Count(Raw(k), PriceCol(k), Num(0))
                                         - Count(Raw(k), PriceCol(k), NaN)
        /\ \A i \in DOMAIN summary[k] :
              IsQuotient(summary[k][i][PowerCol(k)], UnitAmount(k), summary[k][i][PriceCol(k)])

\* C2, amended: only the Big Mac series drops rows, and only those whose
\* price is missing; gasoline, median_home and cpi keep every row.  A row
\* with a non-zero price has value = unit_amount / price, a kept row with
\* price 0 has the value inf, a kept row with a missing price a missing value.
C2_OnlyBigMacDropsMissing ==
    \A k \in DOMAIN summary :
        /\ Len(summary[k]) = Len(Raw(k)) -
              (IF k = "bigmac" THEN Count(Raw(k), PriceCol(k), NaN) ELSE 0)
        /\ \A i \in DOMAIN summary[k] :
              LET price == summary[k][i][PriceCol(k)]
                  v == summary[k][i][PowerCol(k)]
              IN  /\ k = "bigmac" => ~IsNaN(price)
                  /\ IF IsNaN(price) THEN IsNaN(v)
                     ELSE IF IsZero(price) THEN v = Inf
                     ELSE IsQuotient(v, UnitAmount(k), price)

\* A Big Mac row with a missing price was dropped and one with price 0
\* kept, and a gasoline row with a missing price was kept.
C2_Witness ==
    /\ pc = "plot_bigmac"
    /\ Count(bigmac.rows, "price", NaN) > 0
    /\ Count(summary["bigmac"], "price", Num(0)) > 0
    /\ "gasoline" \in DOMAIN summary
    /\ Count(summary["gasoline"], "price", NaN) > 0

(***************************************************************************)
(* The rebased frames the run has produced so far: the four charts and     *)
(* the entries of combined_data, each with the summary series it comes     *)
(* from, its purchasing-power column and its percentage column.            *)
(***************************************************************************)
ChartKey(out) ==
    CASE out = "bigmac_pct" -> "bigmac"
      [] out = "gallon_pct" -> "gasoline"
      [] out = "homes_pct" -> "median_home"
      [] out = "inverted_pct" -> "cpi"
LabelKey(label) ==
    CASE label = "Big Mac" -> "bigmac"
      [] label = "Gasoline" -> "gasoline"
      [] label = "Median Home" -> "median_home"
      [] label = "Inverted CPI" -> "cpi"

Charts ==
    {[key |-> ChartKey(o), df |-> plots[o], pct |-> o,
      val |-> IF o = "inverted_pct" THEN "inverted" ELSE PowerCol(ChartKey(o))] :
        o \in DOMAIN plots}
CombinedEntries ==
    {[key |-> LabelKey(combined_data[i].label), df |-> combined_data[i].df, pct |-> "pct",
      val |-> PowerCol(LabelKey(combined_data[i].label))] : i \in DOMAIN combined_data}
Rebased == Charts \cup CombinedEntries
\* The frames that come out of resample('YE'): all but the Big Mac chart.
Annual == {a \in Rebased : a.pct # "bigmac_pct"}

\* The rows of the summary series k on or after the cutoff, and those in
\* the calendar year y.
Filtered(k) == SelectSeq(summary[k], OnOrAfterCutoff)
Contributing(k, y) == SelectSeq(Filtered(k), LAMBDA r : Year(r["date"]) = y)
MinOf(S) == CHOOSE x \in S : \A z \in S : x <= z
MaxOf(S) == CHOOSE x \in S : \A z \in S : z <= x
YearsOf(rows) == {Year(rows[i]["date"]) : i \in DOMAIN rows}
Span(k) == MinOf(YearsOf(Filtered(k)))..MaxOf(YearsOf(Filtered(k)))
RowsIn(df, y) == {i \in DOMAIN df : Year(df[i]["date"]) = y}

\* C3, as claimed: an annual series holds one row for every calendar year
\* that has a contributing point and no row for a year that has none.
C3_SparseYears ==
    \A a \in Annual : \A y \in Span(a.key) :
        Cardinality(RowsIn(a.df, y)) = IF Contributing(a.key, y) = <<>> THEN 0 ELSE 1

\* C3, amended: an annual series holds exactly one row for every calendar
\* year from the first to the last year of the filtered data and none for
\* any other year; the row of a year without contributing points is there,
\* with every value missing (NaN).
C3_EveryYearHasARow ==
    \A a \in Annual :
        /\ YearsOf(a.df) = Span(a.key)
        /\ \A y \in Span(a.key) :
              /\ Cardinality(RowsIn(a.df, y)) = 1
              /\ Contributing(a.key, y) = <<>> =>
                    \A i \in RowsIn(a.df, y) : \A c \in DOMAIN a.df[i] \ {"date"} : IsNaN(a.df[i][c])

\* An annual series with a row for a year no point of the data falls in.
C3_Witness ==
    \E a \in Annual : \E y \in Span(a.key) :
        Contributing(a.key, y) = <<>> /\ RowsIn(a.df, y) # {}

\* The first point of df on or after the cutoff.
Baseline(df) ==
    CHOOSE i \in DOMAIN df :
        /\ df[i]["date"] >= Cutoff
        /\ \A j \in DOMAIN df : df[j]["date"] >= Cutoff => df[i]["date"] <= df[j]["date"]
HasBaseline(df) == \E i \in DOMAIN df : df[i]["date"] >= Cutoff

\* 100 * value / baseline_value
PctOf(v, base) == FDiv(FScale(v, 100), base)
IsNumber(v) == v[2] # 0

\* C4, as claimed: in every rebased series the baseline is the first point
\* on or after the cutoff, that point has the percentage 100 exactly, and
\* every point has 100 * value / baseline value.
C4_BaselineIs100 ==
    \A f \in Rebased :
        /\ HasBaseline(f.df)
        /\ f.df[Baseline(f.df)][f.pct] = Num(100)
        /\ \A i \in DOMAIN f.df :
              f.df[i][f.pct] = PctOf(f.df[i][f.val], f.df[Baseline(f.df)][f.val])

\* C4, amended: the same, but the baseline point has the percentage 100
\* only when its value is a non-zero number; a baseline whose value is
\* missing or infinite (the price of the first point is missing or 0) has
\* a missing percentage, like every other point of that series.
C4_BaselineIs100IfNumber ==
    \A f \in Rebased :
        /\ HasBaseline(f.df)
        /\ LET base == f.df[Baseline(f.df)][f.val]
           IN  /\ f.df[Baseline(f.df)][f.pct] =
                     IF IsNumber(base) /\ ~IsZero(base) THEN Num(100) ELSE NaN
               /\ \A i \in DOMAIN f.df : f.df[i][f.pct] = PctOf(f.df[i][f.val], base)

\* A rebased series whose baseline is at 100 and a later point is not.
C4_Witness ==
    \E f \in Rebased : \E i \in DOMAIN f.df :
        /\ f.df[Baseline(f.df)][f.pct] = Num(100)
        /\ IsNumber(f.df[i][f.pct])
        /\ f.df[i][f.pct] # Num(100)

(***************************************************************************)
(* CPI.                                                                    *)
(***************************************************************************)
\* The rebased CPI frames: the CPI chart and the Inverted CPI entry.
CpiRebased == {f \in Rebased : f.key = "cpi"}
RowOf(df, y) == df[CHOOSE i \in DOMAIN df : Year(df[i]["date"]) = y]
\* The raw CPI values of the year y, and their reciprocals.
CpiValues(y) == Col(Contributing("cpi", y), "value")
CpiReciprocals(y) == [i \in DOMAIN CpiValues(y) |-> FDiv(Num(1), CpiValues(y)[i])]
CpiBaseYear == MinOf(YearsOf(Filtered("cpi")))
IsCpiExample == files.cpi = File(RowsOf(DOMAIN CpiExample, CpiExample, "value"))

\* C5, as claimed: the annual CPI value of a year is the mean of its raw
\* values, and the CPI percentage of a year is 100 times that mean divided
\* by the mean of the baseline year; for the raw series (2020-01-01, 260),
\* (2020-06-01, 262), (2021-01-01, 270) that is 261 and 270, then 100 and
\* 100 * 270 / 261.
C5_PctOfMeanCpi ==
    \A f \in CpiRebased :
        /\ \A y \in YearsOf(f.df) :
              /\ RowOf(f.df, y)["value"] = Mean(CpiValues(y))
              /\ RowOf(f.df, y)[f.pct] =
                    PctOf(Mean(CpiValues(y)), Mean(CpiValues(CpiBaseYear)))
        /\ IsCpiExample =>
              /\ Col(f.df, "value") = <<Num(261), Num(270)>>
              /\ Col(f.df, f.pct) = <<Num(100), Norm(100 * 270, 261)>>

\* C5, amended: the annual CPI value of a year is the mean of its raw
\* values, but the percentage is that of the inverted CPI: 100 times the
\* annual mean of the reciprocals 1 / value divided by the baseline year's
\* annual mean of the reciprocals.  For the raw series of the claim that is
\* 261 and 270, then 100 and 100 * (1/270) / ((1/260 + 1/262) / 2), about
\* 96.67.
C5_PctOfMeanReciprocal ==
    \A f \in CpiRebased :
        /\ \A y \in YearsOf(f.df) :
              /\ RowOf(f.df, y)["value"] = Mean(CpiValues(y))
              /\ RowOf(f.df, y)[f.pct] =
                    PctOf(Mean(CpiReciprocals(y)), Mean(CpiReciprocals(CpiBaseYear)))
        /\ IsCpiExample =>
              /\ Col(f.df, "value") = <<Num(261), Num(270)>>
              /\ Col(f.df, f.pct) = <<Num(100), <<681200, 7047>> >>

\* The raw series of the claim has gone through the chart and the combined
\* table.
C5_Witness == IsCpiExample /\ Cardinality(CpiRebased) = 2

(***************************************************************************)
(* The pipeline of every rebased frame.                                    *)
(***************************************************************************)
Policy(k) == IF k = "median_home" THEN "last" ELSE "mean"

\* The frame f is the summary series of f.key filtered at the cutoff,
\* resampled to one row per calendar year with the policy of the series,
\* and rebased on its first row.  (The CPI chart keeps the annual
\* purchasing power in its column 'inverted': it writes the percentage over
\* 'inverted_pct'.)
IsAnnualPipeline(f) ==
    /\ YearsOf(f.df) = Span(f.key)
    /\ \A i \in DOMAIN f.df :
          LET y == Year(f.df[i]["date"])
          IN  /\ f.df[i]["date"] = YearEnd(y)
              /\ RowsIn(f.df, y) = {i}
              /\ f.df[i][f.val] =
                    Aggregate(Policy(f.key), Col(Contributing(f.key, y), PowerCol(f.key)))
              /\ f.df[i][f.pct] = PctOf(f.df[i][f.val], f.df[1][f.val])

\* The frame f is the filtered summary series rebased on its first row,
\* without resampling: one row per point.
IsUnresampled(f) ==
    /\ Len(f.df) = Len(Filtered(f.key))
    /\ \A i \in DOMAIN f.df :
          /\ \A c \in DOMAIN Filtered(f.key)[i] : f.df[i][c] = Filtered(f.key)[i][c]
          /\ f.df[i][f.pct] = PctOf(f.df[i][f.val], f.df[1][f.val])

\* C6, as claimed: every rebased output of every series is the affordability
\* series filtered at the cutoff, resampled to one point per calendar year
\* (mean for gasoline, cpi and bigmac, last for median_home) and rebased.
C6_AllResampled == \A f \in Rebased : IsAnnualPipeline(f)

\* C6, amended: that holds of every rebased output except the Big Mac
\* chart, which skips the resample step: it is the filtered Big Mac series
\* rebased, one point per Big Mac row.
C6_AllButBigMacChartResampled ==
    \A f \in Rebased :
        IF f.pct = "bigmac_pct" THEN IsUnresampled(f) ELSE IsAnnualPipeline(f)

\* The run is over with all four series in it, the Big Mac chart holding
\* two points of one year and the median home series two prices of one year.
C6_Witness ==
    /\ pc = "done"
    /\ Cardinality(Rebased) = 8
    /\ \E f \in Charts : f.key = "bigmac" /\ Len(f.df) = 2
    /\ Len(summary["median_home"]) = 2

(***************************************************************************)
(* A partial dashboard.                                                    *)
(***************************************************************************)
Exists(f) == f.kind = "file"
HasPointOnOrAfterCutoff(f) == \E i \in DOMAIN f.rows : f.rows[i]["date"] >= Cutoff

\* C7: with only the CPI and gasoline inputs available (no median_home
\* file, neither Big Mac segment file) the run completes, and the combined
\* table then holds exactly the two series cpi and gasoline.
C7_TwoSeriesDashboard ==
    (/\ Exists(files.cpi) /\ HasPointOnOrAfterCutoff(files.cpi)
     /\ Exists(files.gasoline) /\ HasPointOnOrAfterCutoff(files.gasoline)
     /\ ~Exists(files.msp) /\ ~Exists(files.historical) /\ ~Exists(files.current))
    => /\ pc # "crashed"
       /\ pc = "done" => {combined_data[i].label : i \in DOMAIN combined_data}
                            = {"Gasoline", "Inverted CPI"}

\* C8: a series that is present but has no point on or after the cutoff is
\* left out and does not abort the run, and the series that have a
\* baseline are in the combined table at the end.
C8_NoBaselineOmitted ==
    (\E k \in DOMAIN summary : Filtered(k) = <<>>)
    => /\ pc # "crashed"
       /\ pc = "done" => {LabelKey(combined_data[i].label) : i \in DOMAIN combined_data}
                            = {k \in DOMAIN summary : Filtered(k) # <<>>}

(***************************************************************************)
(* The order of the combined table.                                        *)
(***************************************************************************)
KeyLabel(k) ==
    CASE k = "bigmac" -> "Big Mac"
      [] k = "gasoline" -> "Gasoline"
      [] k = "median_home" -> "Median Home"
      [] k = "cpi" -> "Inverted CPI"

\* The entries of the sequence s that are in the set S, in the order of s.
Restrict(s, S) == SelectSeq(s, LAMBDA x : x \in S)

\* C9, as claimed: the series of the combined table, and the legend drawn
\* from it, are in the order in which the inputs were supplied.
C9_OrderOfInputs ==
    pc = "done" =>
        /\ Labels(combined_data) = [i \in DOMAIN loadOrder |-> KeyLabel(loadOrder[i])]
        /\ legend = Labels(combined_data)

\* C9, amended: the order is the one the script inserts in, whatever the
\* order of the inputs: Big Mac, Gasoline, Median Home, Inverted CPI, less
\* the series that are absent; gasoline, cpi and median_home come out as
\* Gasoline, Median Home, Inverted CPI.
C9_FixedOrder ==
    pc = "done" =>
        /\ Labels(combined_data) =
              Restrict(<<"Big Mac", "Gasoline", "Median Home", "Inverted CPI">>,
                       {KeyLabel(k) : k \in DOMAIN summary})
        /\ legend = Labels(combined_data)

\* The run is over with all four series loaded, cpi first and bigmac last,
\* and the legend starting with Big Mac.
C9_Witness ==
    /\ pc = "done"
    /\ loadOrder = <<"cpi", "median_home", "gasoline", "bigmac">>
    /\ Len(legend) = 4

(***************************************************************************)
(* The chart of a series against its entry of the combined table.          *)
(***************************************************************************)
\* In every calendar year both frames have a row for, every row of the one
\* has the percentage of every row of the other.
SamePctByYear(f, g) ==
    \A i \in DOMAIN f.df : \A j \in DOMAIN g.df :
        Year(f.df[i]["date"]) = Year(g.df[j]["date"]) => f.df[i][f.pct] = g.df[j][g.pct]

\* C10, as claimed: for each of the four series the chart and the combined
\* table hold the same percentage for every year.
C10_ChartEqualsCombined ==
    \A f \in Charts : \A g \in CombinedEntries :
        f.key = g.key => YearsOf(f.df) \subseteq YearsOf(g.df) /\ SamePctByYear(f, g)

\* C10, amended: that holds for gasoline, median_home and cpi, whose chart
\* and combined entry cover the same years; the Big Mac chart is not
\* resampled, and agrees with the combined table where no year holds more
\* than one Big Mac point.
C10_ChartEqualsCombinedButBigMac ==
    \A f \in Charts : \A g \in CombinedEntries :
        f.key = g.key =>
            IF f.key = "bigmac"
            THEN (\A y \in YearsOf(f.df) : Cardinality(RowsIn(f.df, y)) = 1)
                    => SamePctByYear(f, g)
            ELSE YearsOf(f.df) = YearsOf(g.df) /\ SamePctByYear(f, g)

\* A series with two points in a year and different percentages in two
\* years has its chart and its combined entry.
C10_Witness ==
    \E f \in Charts : \E g \in CombinedEntries :
        /\ f.key = g.key
        /\ f.key = "cpi"
        /\ Len(summary["cpi"]) = 3
        /\ Len(g.df) = 2
====
